---- MODULE Spec2Model ----
(***************************************************************************)
(* A model of eyed3.vorbis.audio: the Ogg page parser (OggPage.__init__),  *)
(* the page sequence scanner (OggPage.parse), the header locator and the   *)
(* Vorbis header decoders (VorbisAudioInfo.__init__) and the caller that   *)
(* catches their errors (VorbisAudioFile._read).                           *)
(*                                                                         *)
(* The module holds one state machine per stage of the parse.  Each stage  *)
(* has its own specification, whose Init draws the stage's input from a    *)
(* bounded set and parks the variables of the other stages:                *)
(*   SpecScan   OggPage.parse over a stream of pages                       *)
(*   SpecLace   the segment table walk of OggPage.__init__                 *)
(*   SpecLocate the header locator loop, on sequences parse can return     *)
(*   SpecIdent  identification header decode, bitrate estimate, duration   *)
(*   SpecCmt    comment header decode over a byte buffer                   *)
(***************************************************************************)
EXTENDS Integers, Sequences, FiniteSets, TLC

VARIABLES
    pc,         \* position of the running stage in its code
    err,        \* the exception in flight or raised: "none" or its class name
    info,       \* VorbisAudioFile._info: "unset", "AudioInfo" or "None"
    \* ---- the stream (file_obj) and OggPage.parse
    stream,     \* the well-formed pages that lie in the file, in file order
    term,       \* what lies in the file after those pages
    begin,      \* how many pages precede the position the scan begins at
    pos,        \* file_obj.tell()
    start,      \* parse's local `start`
    pages,      \* parse's local `pages` / VorbisAudioInfo.pages
    \* ---- OggPage.__init__, the lacing walk
    segments,   \* self.segments, the segment table
    sidx,       \* number of segments the for loop has consumed
    count,      \* the local `count`
    laces,      \* self.laces
    packets,    \* the sizes asked of file_obj.read, one per packet
    \* ---- the header locator
    pidx,       \* number of pages the for loop has consumed
    id_page,    \* index in pages of id_page, 0 for None
    cmt_page,   \* index in pages of cmt_page, 0 for None
    last_page,  \* index in pages of last_page, 0 for None
    \* ---- identification header
    ident,      \* the decoded fields and what is derived from them
    \* ---- comment header
    buffer,     \* cmt_page.buffer, a sequence of bytes
    offset,     \* the local `offset` (0-based, as in the code)
    ncomments,  \* self._tag._ncomments
    cidx,       \* number of entries the for loop has consumed
    comments    \* self._tag._vorbis_comments, a function from key to value

scanVars == <<stream, term, begin, pos, start, pages>>
laceVars == <<segments, sidx, count, laces, packets>>
locVars  == <<pidx, id_page, cmt_page, last_page>>
cmtVars  == <<buffer, offset, ncomments, cidx, comments>>
vars == <<pc, err, info, scanVars, laceVars, locVars, ident, cmtVars>>

(***************************************************************************)
(* Bounds of the model.                                                    *)
(***************************************************************************)
MaxPages    == 3    \* well-formed pages in a scanned stream
MaxSegs     == 3    \* entries of a segment table
MaxLocPages == 3    \* pages of a sequence handed to the header locator
MaxRate     == 2    \* bitrate fields range over -1..MaxRate besides the samples
MaxEntries  == 2    \* comment entries encoded in a comment page
MaxCut      == 2    \* bytes by which a comment page payload is cut short

(***************************************************************************)
(* Program constants.                                                      *)
(***************************************************************************)
HeaderBytes == 27   \* file_obj.read(27)
FullSegment == 255  \* if segment < 255
ContinuedBit == 1   \* self.type & 0x1
FirstBit    == 2    \* self.type & 0x2
LastBit     == 4    \* self.type & 0x4

RECURSIVE SumSeq(_)
SumSeq(s) == IF s = <<>> THEN 0 ELSE s[1] + SumSeq(Tail(s))

SeqsUpTo(S, n) == UNION {[1..k -> S] : k \in 0..n}

\* x & bit, for bit a power of two, as Python's truth value
HasBit(x, bit) == (x \div bit) % 2 = 1

(***************************************************************************)
(* Pages.  A page of the stream is a record of the header fields the code  *)
(* reads (type, serial), the head of its joined payload (what startswith   *)
(* tests) and the number of bytes that follow its 27-byte header (segment  *)
(* table and payload).  The OggPage object adds the offset it was read at. *)
(***************************************************************************)
IdHead    == "\\x01vorbis"
CmtHead   == "\\x03vorbis"
OtherHead == "audio"
Heads     == {IdHead, CmtHead, OtherHead}

PageLen(p) == HeaderBytes + p.body

OggPage(p, off) ==
    [type |-> p.type, serial |-> p.serial, head |-> p.head, offset |-> off]

isContinued(page) == HasBit(page.type, ContinuedBit)

isFirst(page) == HasBit(page.type, FirstBit)

isLast(page) == HasBit(page.type, LastBit)

\* the byte offset of the page boundary that n pages of s precede
RECURSIVE PageOffset(_, _)
PageOffset(s, n) == IF n = 0 THEN 0 ELSE PageOffset(s, n - 1) + PageLen(s[n])

\* the pages of s that begin at byte offset p (none if p is no page boundary)
PageAt(s, p) == {i \in 1..Len(s) : PageOffset(s, i - 1) = p}

(***************************************************************************)
(* OggPage.parse.  What follows the well-formed pages of the stream:       *)
(*   "short"      fewer than 27 bytes: struct.unpack raises struct.error   *)
(*   "badmagic"   a header whose magic is not OggS: VorbisException        *)
(*   "badversion" a header whose version is not 0: VorbisException         *)
(* In each case read(27) has moved the position before the exception.      *)
(***************************************************************************)
Terms == {"short", "badmagic", "badversion"}
ShortBytes == 5

TermErr(t) == IF t = "short" THEN "struct.error" ELSE "VorbisException"

TermRead(t) == IF t = "short" THEN ShortBytes ELSE HeaderBytes

\* a loop that leaves on the "first" flag instead of the "last" flag
BreakOnFirst(page) == isFirst(page)

\* if page.isLast(): break
Break(page) == isLast(page)

\* start = file_obj.tell(); pages = []
ParseBegin ==
    /\ pc = "parse"
    /\ start' = pos
    /\ pages' = <<>>
    /\ pc' = "loop"
    /\ UNCHANGED <<err, info, stream, term, begin, pos, laceVars, locVars, ident, cmtVars>>

\* one turn of `while True`: page = OggPage(file_obj); pages.append(page);
\* if page.isLast(): break.  An exception of the constructor leaves the loop.
ParsePage ==
    /\ pc = "loop"
    /\ IF PageAt(stream, pos) # {}
       THEN LET i == CHOOSE j \in PageAt(stream, pos) : TRUE
                page == OggPage(stream[i], pos)
            IN /\ pos' = pos + PageLen(stream[i])
               /\ pages' = Append(pages, page)
               /\ pc' = IF Break(page) THEN "finally" ELSE "loop"
               /\ err' = err
       ELSE /\ pos' = pos + TermRead(term)
            /\ pages' = pages
            /\ err' = TermErr(term)
            /\ pc' = "finally"
    /\ UNCHANGED <<info, stream, term, begin, start, laceVars, locVars, ident, cmtVars>>

\* the seek placed after the loop instead of in a finally clause
SeekAfterLoop(p) == IF err = "none" THEN start ELSE p

\* file_obj.seek(start): the position after it, given the position before
Seek(p) == start

\* finally: file_obj.seek(start); a pending exception then propagates
ParseFinally ==
    /\ pc = "finally"
    /\ pos' = Seek(pos)
    /\ pc' = IF err = "none" THEN "check" ELSE "raised"
    /\ UNCHANGED <<err, info, stream, term, begin, start, pages, laceVars, locVars, ident, cmtVars>>

\* the head check without `assert not pages[0].isLast()`
HeadOkNoLast(ps) == isFirst(ps[1]) /\ ~isContinued(ps[1])

\* the three asserts under `# Check head`
HeadOk(ps) ==
    /\ isFirst(ps[1])
    /\ ~isContinued(ps[1])
    /\ ~isLast(ps[1])

\* the end check without `assert not pages[-1].isFirst()`
EndOkNoFirst(ps) == Len(ps) > 1 => isLast(ps[Len(ps)])

\* the asserts under `# Check end`
EndOk(ps) ==
    Len(ps) > 1 => (~isFirst(ps[Len(ps)]) /\ isLast(ps[Len(ps)]))

ParseCheckHead ==
    /\ pc = "check"
    /\ IF HeadOk(pages)
       THEN pc' = "checkend" /\ err' = err
       ELSE pc' = "raised" /\ err' = "AssertionError"
    /\ UNCHANGED <<info, scanVars, laceVars, locVars, ident, cmtVars>>

ParseCheckEnd ==
    /\ pc = "checkend"
    /\ IF EndOk(pages)
       THEN pc' = "returned" /\ err' = err
       ELSE pc' = "raised" /\ err' = "AssertionError"
    /\ UNCHANGED <<info, scanVars, laceVars, locVars, ident, cmtVars>>

ScanPageSet == [type : 0..7, serial : {1}, head : {OtherHead}, body : {1}]

NoIdent == [raw |-> <<>>, position |-> 0,
            sample_rate |-> 0, max_bitrate |-> 0, nominal_bitrate |-> 0,
            min_bitrate |-> 0, bitrate |-> 0,
            bit_rate |-> <<0, 0>>, time_secs |-> <<0, 0>>]

LaceIdle == segments = <<>> /\ sidx = 0 /\ count = 0 /\ laces = <<>> /\ packets = <<>>

LocIdle == pidx = 0 /\ id_page = 0 /\ cmt_page = 0 /\ last_page = 0

CmtIdle == buffer = <<>> /\ offset = 0 /\ ncomments = 0 /\ cidx = 0 /\ comments = {}

ScanIdle == stream = <<>> /\ term = "short" /\ begin = 0 /\ pos = 0 /\ start = 0 /\ pages = <<>>

InitScan ==
    /\ pc = "parse" /\ err = "none" /\ info = "unset"
    /\ stream \in SeqsUpTo(ScanPageSet, MaxPages)
    /\ term \in Terms
    /\ begin \in {b \in 0..1 : b <= Len(stream)}
    /\ pos = PageOffset(stream, begin)
    /\ start = 0
    /\ pages = <<>>
    /\ LaceIdle /\ LocIdle /\ ident = NoIdent /\ CmtIdle

NextScan == ParseBegin \/ ParsePage \/ ParseFinally \/ ParseCheckHead \/ ParseCheckEnd

SpecScan == InitScan /\ [][NextScan]_vars

(***************************************************************************)
(* Claims about OggPage.parse, verified under SpecScan.  The flags are      *)
(* restated here on the type byte's value, apart from the code's tests.    *)
(***************************************************************************)
FlagContinued(p) == p.type \in {1, 3, 5, 7}
FlagFirst(p)     == p.type \in {2, 3, 6, 7}
FlagLast(p)      == p.type \in {4, 5, 6, 7}

ParseOver == pc \in {"check", "checkend", "returned", "raised"}

\* the pages of the stream from the scan's first page on that carry "last"
LastFlagged == {i \in (begin + 1)..Len(stream) : FlagLast(stream[i])}

FirstLastFlagged == CHOOSE i \in LastFlagged : \A j \in LastFlagged : i <= j

\* C1: once the scan is over, by return or by any exception, the stream is
\* at the position it had when the scan began.
C1_PositionRestored == ParseOver => pos = PageOffset(stream, begin)

\* a page parse failed after pages had been consumed, from a nonzero position
C1_Witness ==
    /\ pc = "raised" /\ err = "struct.error"
    /\ begin = 1 /\ Len(pages) = 2
    /\ pos = PageOffset(stream, begin)

\* C2: a returned sequence is the stream's pages in stream order from the
\* scan's first page up to the first page flagged "last", no earlier page of
\* it is flagged "last", and the read position never passes the end of that
\* page.
C2_StopsAtFirstLast ==
    /\ \A j \in 1..(Len(pages) - 1) : ~FlagLast(pages[j])
    /\ LastFlagged # {} => pos <= PageOffset(stream, FirstLastFlagged)
    /\ pc = "returned" =>
          /\ LastFlagged # {}
          /\ Len(pages) = FirstLastFlagged - begin
          /\ \A j \in 1..Len(pages) :
                pages[j] = OggPage(stream[begin + j], PageOffset(stream, begin + j - 1))

\* a sequence was returned and another page follows its final page
C2_Witness ==
    /\ pc = "returned"
    /\ begin + Len(pages) < Len(stream)
    /\ FlagLast(stream[Len(stream)])

\* C3: a returned sequence has a first page with "first" and without
\* "continued" and "last", and, if longer than one page, a final page
\* without "first" and with "last".
C3_PostScanInvariants ==
    pc = "returned" =>
        /\ FlagFirst(pages[1]) /\ ~FlagContinued(pages[1]) /\ ~FlagLast(pages[1])
        /\ Len(pages) > 1 =>
              (~FlagFirst(pages[Len(pages)]) /\ FlagLast(pages[Len(pages)]))

\* a three-page sequence was returned, its final page also "continued"
C3_Witness ==
    /\ pc = "returned" /\ Len(pages) = 3
    /\ FlagContinued(pages[3])

\* C10: a returned sequence has at least two pages and its only page
\* flagged "last" is its final page; a scan whose first page is flagged
\* "last" does not pass the head check.
C10_NeverOnePage ==
    /\ pc = "returned" =>
          /\ Len(pages) >= 2
          /\ \A j \in 1..Len(pages) : FlagLast(pages[j]) <=> j = Len(pages)
    /\ (begin < Len(stream) /\ FlagLast(stream[begin + 1])) =>
          pc \notin {"checkend", "returned"}

\* the first page read carried "first" and "last", and the scan failed
C10_Witness ==
    /\ pc = "raised" /\ err = "AssertionError"
    /\ Len(pages) = 1
    /\ FlagFirst(pages[1]) /\ FlagLast(pages[1]) /\ ~FlagContinued(pages[1])

(***************************************************************************)
(* OggPage.__init__, the lacing walk: self.laces from self.segments, then  *)
(* one file_obj.read(lace) per lace.  packets records the size asked of    *)
(* each read; the stream is taken to hold the payload the table declares.  *)
(***************************************************************************)
SegVals == {0, 10, 254, 255}

\* a full segment closing the lace like any other
ClosesAlways(segment) == segment <= FullSegment

\* if segment < 255
Closes(segment) == segment < FullSegment

\* one turn of `for segment in bytearray(self.segments)`
LaceSegment ==
    /\ pc = "lace"
    /\ sidx < Len(segments)
    /\ LET segment == segments[sidx + 1]
           c == count + segment
       IN IF Closes(segment)
          THEN laces' = Append(laces, c) /\ count' = 0
          ELSE laces' = laces /\ count' = c
    /\ sidx' = sidx + 1
    /\ UNCHANGED <<pc, err, info, scanVars, segments, packets, locVars, ident, cmtVars>>

\* after the loop: if count: self.laces.append(count)
LaceTail ==
    /\ pc = "lace"
    /\ sidx = Len(segments)
    /\ laces' = IF count # 0 THEN Append(laces, count) ELSE laces
    /\ pc' = "packets"
    /\ UNCHANGED <<err, info, scanVars, segments, sidx, count, packets, locVars, ident, cmtVars>>

\* for lace in self.laces: self.packets.append(file_obj.read(lace))
ReadPackets ==
    /\ pc = "packets"
    /\ packets' = [k \in 1..Len(laces) |-> laces[k]]
    /\ pc' = "page"
    /\ UNCHANGED <<err, info, scanVars, segments, sidx, count, laces, locVars, ident, cmtVars>>

InitLace ==
    /\ pc = "lace" /\ err = "none" /\ info = "unset"
    /\ segments \in SeqsUpTo(SegVals, MaxSegs)
    /\ sidx = 0 /\ count = 0 /\ laces = <<>> /\ packets = <<>>
    /\ ScanIdle /\ LocIdle /\ ident = NoIdent /\ CmtIdle

NextLace == LaceSegment \/ LaceTail \/ ReadPackets

SpecLace == InitLace /\ [][NextLace]_vars

(***************************************************************************)
(* The claim about lacing, verified under SpecLace.  The laces are restated *)
(* from the positions of the segments below 255.                           *)
(***************************************************************************)
Closers(t) == {i \in 1..Len(t) : t[i] < 255}

\* the last closer before index i, 0 if there is none
PrevCloser(t, i) ==
    IF \E j \in Closers(t) : j < i
    THEN CHOOSE j \in Closers(t) : j < i /\ \A k \in Closers(t) : k < i => k <= j
    ELSE 0

\* the k-th closer of t
RECURSIVE NthCloser(_, _)
NthCloser(t, k) ==
    IF k = 1 THEN CHOOSE i \in Closers(t) : \A j \in Closers(t) : i <= j
    ELSE LET p == NthCloser(t, k - 1)
         IN CHOOSE i \in Closers(t) : i > p /\ \A j \in Closers(t) : j > p => i <= j

SumRange(t, a, b) == SumSeq(SubSeq(t, a, b))

ExpectedLaces(t) ==
    LET n == Cardinality(Closers(t))
        closed == [k \in 1..n |->
                     SumRange(t, PrevCloser(t, NthCloser(t, k)) + 1, NthCloser(t, k))]
        lastc == PrevCloser(t, Len(t) + 1)
    IN IF lastc < Len(t)
       THEN Append(closed, 255 * (Len(t) - lastc))
       ELSE closed

\* C8: when the page is built, each segment below 255 has closed a lace of
\* the sum accumulated since the previous one (a lone 0 a lace of 0), a run
\* of 255s open at the table end is one final lace, the lace lengths sum to
\* the sum of the segments, and that is the payload size read;
\* [255,255,10] gives [520] and [255] gives [255].
C8_Lacing ==
    pc = "page" =>
        /\ laces = ExpectedLaces(segments)
        /\ SumSeq(laces) = SumSeq(segments)
        /\ SumSeq(packets) = SumSeq(segments) /\ Len(packets) = Len(laces)
        /\ segments = <<255, 255, 10>> => laces = <<520>>
        /\ segments = <<255>> => laces = <<255>>
        /\ segments = <<0>> => laces = <<0>>

\* the table [255,255,10] was walked and its payload read
C8_Witness == pc = "page" /\ segments = <<255, 255, 10>> /\ packets = <<520>>

(***************************************************************************)
(* The header locator: the for loop of VorbisAudioInfo.__init__ over       *)
(* self.pages, the missing-header raise, and the except clauses of         *)
(* VorbisAudioFile._read.  id_page, cmt_page and last_page hold the index  *)
(* of the page they name, 0 for None (an OggPage object is always truthy). *)
(***************************************************************************)
\* one turn of `for page in self.pages`
LocatePage ==
    /\ pc = "locate"
    /\ pidx < Len(pages)
    /\ LET i == pidx + 1
           page == pages[i]
           id == IF page.head = IdHead THEN i ELSE id_page
       IN /\ id_page' = id
          /\ cmt_page' = IF page.head # IdHead /\ page.head = CmtHead THEN i ELSE cmt_page
          /\ last_page' = IF id # 0 /\ page.serial = pages[id].serial /\ isLast(page)
                          THEN i ELSE last_page
          /\ pidx' = i
    /\ UNCHANGED <<pc, err, info, scanVars, laceVars, ident, cmtVars>>

\* if not id_page or not cmt_page or not last_page: raise VorbisException
LocateEnd ==
    /\ pc = "locate"
    /\ pidx = Len(pages)
    /\ IF id_page = 0 \/ cmt_page = 0 \/ last_page = 0
       THEN pc' = "raised" /\ err' = "VorbisException"
       ELSE pc' = "decode" /\ err' = err
    /\ UNCHANGED <<info, scanVars, laceVars, locVars, ident, cmtVars>>

\* _read: except VorbisException / except Exception: self._info = None
ReadCatch ==
    /\ pc = "raised"
    /\ info' = "None"
    /\ pc' = "done"
    /\ UNCHANGED <<err, scanVars, laceVars, locVars, ident, cmtVars>>

\* what OggPage.parse returns: it left its loop on a last-flagged page and
\* passed its asserts
ParseReturns(ps) ==
    /\ Len(ps) >= 1
    /\ \A j \in 1..Len(ps) : Break(ps[j]) <=> j = Len(ps)
    /\ HeadOk(ps)
    /\ EndOk(ps)

LocFields == [serial : {1, 2}, head : Heads, body : {1}]

LocPage(t, f) == [type |-> t, serial |-> f.serial, head |-> f.head, body |-> f.body]

InitLocate ==
    /\ pc = "locate" /\ err = "none" /\ info = "unset"
    /\ \E first \in LocFields, last \in LocFields, tl \in {4, 5},
          mid \in SeqsUpTo([type : 0..3] \X LocFields, MaxLocPages - 2) :
          LET ps == <<LocPage(2, first)>>
                    \o [k \in 1..Len(mid) |-> LocPage(mid[k][1].type, mid[k][2])]
                    \o <<LocPage(tl, last)>>
          IN /\ stream = ps
             /\ pages = [k \in 1..Len(ps) |-> OggPage(ps[k], PageOffset(ps, k - 1))]
    /\ ParseReturns(pages)
    /\ term = "short" /\ begin = 0 /\ pos = 0 /\ start = 0
    /\ LocIdle
    /\ LaceIdle /\ ident = NoIdent /\ CmtIdle

NextLocate == LocatePage \/ LocateEnd \/ ReadCatch

SpecLocate == InitLocate /\ [][NextLocate]_vars

(***************************************************************************)
(* Claims about the header locator, verified under SpecLocate.              *)
(***************************************************************************)
WithHead(h) == {i \in 1..Len(pages) : pages[i].head = h}

\* the first page with head h, 0 if there is none
FirstWithHead(h) ==
    IF WithHead(h) = {} THEN 0
    ELSE CHOOSE i \in WithHead(h) : \A j \in WithHead(h) : i <= j

LocateOver == pc \in {"decode", "raised", "done"}

\* C4: after the loop the identification page is the first page whose
\* payload begins with byte 1 + "vorbis" and the comment page is the first
\* page whose payload begins with byte 3 + "vorbis".
C4_FirstMatchSelected ==
    LocateOver =>
        /\ id_page = FirstWithHead(IdHead)
        /\ cmt_page = FirstWithHead(CmtHead)

\* a last-flagged page with the identification page's serial number, at or
\* after the identification page (the first identification page)
TerminalPages ==
    {j \in 1..Len(pages) :
        /\ FirstWithHead(IdHead) # 0
        /\ j >= FirstWithHead(IdHead)
        /\ FlagLast(pages[j])
        /\ pages[j].serial = pages[FirstWithHead(IdHead)].serial}

SomeHeaderMissing ==
    \/ FirstWithHead(IdHead) = 0
    \/ FirstWithHead(CmtHead) = 0
    \/ TerminalPages = {}

\* C5: header location raises the missing-header error if and only if the
\* identification page, the comment page or the terminal page is not in the
\* sequence; after the error the caller holds no AudioInfo.
C5_MissingHeaderIff ==
    /\ LocateOver => (err = "VorbisException" <=> SomeHeaderMissing)
    /\ (pc = "done" /\ SomeHeaderMissing) => info = "None"

\* C5 restricted to sequences with at most one identification-prefixed page
C5_WithOneIdPage ==
    Cardinality(WithHead(IdHead)) <= 1 => C5_MissingHeaderIff

\* an identification page and no comment page: the error, and no AudioInfo
C5_NoCommentPage ==
    /\ pc = "done" /\ err = "VorbisException" /\ info = "None"
    /\ WithHead(IdHead) # {} /\ WithHead(CmtHead) = {} /\ TerminalPages # {}

(***************************************************************************)
(* The identification header: struct.unpack("<B4i", ...), the clamps, the  *)
(* bitrate estimate and the duration.  ident.raw holds the four 32-bit     *)
(* little-endian words of the header, each as its four bytes (sample rate, *)
(* max, nominal, min bitrate) and ident.position the granule position of   *)
(* last_page.  time_secs is the exact quotient, as <<whole, remainder>>.   *)
(* Sample rate words with the sign bit set are left out.                   *)
(***************************************************************************)
\* the four little-endian bytes of n, 0 <= n < 2^31
LE32(n) == <<n % 256, (n \div 256) % 256, (n \div 65536) % 256, n \div 16777216>>

MinusOne == <<255, 255, 255, 255>>

\* -(2^31) + 1
VeryNegative == <<1, 0, 0, 128>>

\* the "i" format: four little-endian bytes as a two's complement integer
Signed32(b) ==
    b[1] + 256 * b[2] + 65536 * b[3]
         + 16777216 * (IF b[4] >= 128 THEN b[4] - 256 ELSE b[4])

Max(a, b) == IF a >= b THEN a ELSE b

\* the estimate with the min test placed before the max test
EstimateMinFirst(maxb, nominal, minb) ==
    IF nominal = 0 THEN (maxb + minb) \div 2
    ELSE IF minb > nominal THEN minb
    ELSE IF maxb # 0 /\ maxb < nominal THEN maxb
    ELSE nominal

\* the if / elif chain that sets self.bitrate
Estimate(maxb, nominal, minb) ==
    IF nominal = 0 THEN (maxb + minb) \div 2
    ELSE IF maxb # 0 /\ maxb < nominal THEN maxb
    ELSE IF minb > nominal THEN minb
    ELSE nominal

\* struct.unpack("<B4i", id_page.buffer[11:28])
IdentUnpack ==
    /\ pc = "decode"
    /\ ident' = [ident EXCEPT !.sample_rate = Signed32(ident.raw[1]),
                              !.max_bitrate = Signed32(ident.raw[2]),
                              !.nominal_bitrate = Signed32(ident.raw[3]),
                              !.min_bitrate = Signed32(ident.raw[4])]
    /\ pc' = "clamp"
    /\ UNCHANGED <<err, info, scanVars, laceVars, locVars, cmtVars>>

\* self.max_bitrate = max(0, self.max_bitrate), and so for min and nominal
IdentClamp ==
    /\ pc = "clamp"
    /\ ident' = [ident EXCEPT !.max_bitrate = Max(0, ident.max_bitrate),
                              !.min_bitrate = Max(0, ident.min_bitrate),
                              !.nominal_bitrate = Max(0, ident.nominal_bitrate)]
    /\ pc' = "bitrate"
    /\ UNCHANGED <<err, info, scanVars, laceVars, locVars, cmtVars>>

\* self.bitrate and self.bit_rate
IdentBitrate ==
    /\ pc = "bitrate"
    /\ LET b == Estimate(ident.max_bitrate, ident.nominal_bitrate, ident.min_bitrate)
       IN ident' = [ident EXCEPT
                       !.bitrate = b,
                       !.bit_rate = <<IF ident.max_bitrate # 0 THEN ident.max_bitrate ELSE 0, b>>]
    /\ pc' = "duration"
    /\ UNCHANGED <<err, info, scanVars, laceVars, locVars, cmtVars>>

\* self.time_secs = last_page.position / float(self.sample_rate)
IdentDuration ==
    /\ pc = "duration"
    /\ IF ident.sample_rate = 0
       THEN /\ err' = "ZeroDivisionError"
            /\ pc' = "raised"
            /\ ident' = ident
       ELSE /\ ident' = [ident EXCEPT !.time_secs = <<ident.position \div ident.sample_rate,
                                                      ident.position % ident.sample_rate>>]
            /\ pc' = "comments"
            /\ err' = err
    /\ UNCHANGED <<info, scanVars, laceVars, locVars, cmtVars>>

RateWords ==
    {LE32(n) : n \in (0..MaxRate) \cup {64000, 96000, 128000}} \cup {MinusOne, VeryNegative}

SampleRateWords == {LE32(n) : n \in {0, 1, 44100}}

Positions == {0, 441000, 441001}

InitIdent ==
    /\ pc = "decode" /\ err = "none" /\ info = "unset"
    /\ \E sr \in SampleRateWords, mx \in RateWords, nm \in RateWords, mn \in RateWords,
          p \in Positions :
          ident = [NoIdent EXCEPT !.raw = <<sr, mx, nm, mn>>, !.position = p]
    /\ ScanIdle /\ LaceIdle /\ LocIdle /\ CmtIdle

NextIdent == IdentUnpack \/ IdentClamp \/ IdentBitrate \/ IdentDuration \/ ReadCatch

SpecIdent == InitIdent /\ [][NextIdent]_vars

(***************************************************************************)
(* Claims about the identification header, verified under SpecIdent.  The   *)
(* decoded values are restated from the raw words.                         *)
(***************************************************************************)
Unsigned(b) == b[1] + 256 * b[2] + 65536 * b[3] + 16777216 * b[4]

\* the value of a word: with the top bit set, minus its complement, less one
Decoded(b) ==
    IF b[4] < 128 THEN Unsigned(b)
    ELSE 0 - Unsigned([k \in 1..4 |-> 255 - b[k]]) - 1

Clamped(w) == IF Decoded(w) < 0 THEN 0 ELSE Decoded(w)

ExpectedEstimate(mx, nm, mn) ==
    CASE nm = 0 -> (mx + mn) \div 2
      [] nm # 0 /\ mx # 0 /\ mx < nm -> mx
      [] nm # 0 /\ ~(mx # 0 /\ mx < nm) /\ mn > nm -> mn
      [] OTHER -> nm

BitrateSet == pc \in {"duration", "comments", "raised", "done"}

\* C6: each negative bitrate field is clamped to 0, the estimate follows the
\* precedence nominal = 0, then max below nominal, then min above nominal,
\* then nominal, and the ceiling reported with it is the clamped max.
C6_BitrateEstimate ==
    BitrateSet =>
        LET mx == Clamped(ident.raw[2])
            nm == Clamped(ident.raw[3])
            mn == Clamped(ident.raw[4])
        IN /\ ident.bitrate = ExpectedEstimate(mx, nm, mn)
           /\ ident.bit_rate = <<mx, ident.bitrate>>
           /\ (nm = 0 /\ mx = 128000 /\ mn = 64000) => ident.bitrate = 96000
           /\ (nm = 96000 /\ mx = 64000) => ident.bitrate = 64000
           /\ (nm = 64000 /\ mx = 0 /\ mn = 96000) => ident.bitrate = 96000
           /\ (nm = 96000 /\ mx = 0 /\ mn = 0) => ident.bitrate = 96000
           /\ Decoded(ident.raw[2]) = -1 => ident.bit_rate[1] = 0

\* max = -1 was decoded, clamped, and the estimate made from min alone
C6_Witness ==
    /\ pc = "duration"
    /\ ident.raw[2] = MinusOne /\ ident.max_bitrate = 0
    /\ ident.nominal_bitrate = 0 /\ ident.min_bitrate = 64000
    /\ ident.bitrate = 32000

IdentOver == pc \in {"comments", "raised", "done"}

\* C7: a sample rate of 0 is rejected before the division with the format
\* error (VorbisException), not a division-by-zero failure; otherwise the
\* duration is the terminal page's granule position over the sample rate.
C7_ZeroSampleRate ==
    /\ (IdentOver /\ Decoded(ident.raw[1]) = 0) => err = "VorbisException"
    /\ pc = "comments" =>
          /\ ident.time_secs[1] * Decoded(ident.raw[1]) + ident.time_secs[2] = ident.position
          /\ (Decoded(ident.raw[1]) = 44100 /\ ident.position = 441000) =>
                ident.time_secs = <<10, 0>>

(***************************************************************************)
(* The comment header.  buffer is cmt_page.buffer as a sequence of bytes,  *)
(* offset the code's 0-based offset into it.  The comment table is the set *)
(* of its <<key, value>> pairs, keys and values as sequences of code       *)
(* points.  The text bytes of the model are ASCII and 0xFF, which no UTF-8 *)
(* text holds, so a text decodes iff all its bytes are below 128, and to   *)
(* the same numbers.                                                       *)
(***************************************************************************)
Min(a, b) == IF a <= b THEN a ELSE b

\* b[a:z] of Python, for 0 <= a <= z
Slice(b, a, z) == SubSeq(b, a + 1, Min(z, Len(b)))

\* struct.unpack("<I", four bytes)[0]
UnpackI(b) == b[1] + 256 * b[2] + 65536 * b[3] + 16777216 * b[4]

\* bytes.decode("utf-8") succeeds
Decodes(b) == \A k \in 1..Len(b) : b[k] < 128

Equals == 61    \* b"="

HasEquals(b) == \E k \in 1..Len(b) : b[k] = Equals

\* b.split(b"=", 1), for b with a "="
SplitAt(b) ==
    LET k == CHOOSE i \in 1..Len(b) : b[i] = Equals /\ \A j \in 1..(i - 1) : b[j] # Equals
    IN <<SubSeq(b, 1, k - 1), SubSeq(b, k + 1, Len(b))>>

\* d[key] = value
Put(d, key, value) == {p \in d : p[1] # key} \cup {<<key, value>>}

VendorAt == 7

\* self.vendor_len, self.vendor, self._tag._ncomments and the offset after them
CmtVendor ==
    /\ pc = "comments"
    /\ LET lenb == Slice(buffer, VendorAt, VendorAt + 4)
           vlen == UnpackI(lenb)
           off == VendorAt + 4 + vlen
           cntb == Slice(buffer, off, off + 4)
       IN IF Len(lenb) < 4
          THEN err' = "struct.error" /\ pc' = "raised" /\ UNCHANGED <<offset, ncomments>>
          ELSE IF ~Decodes(Slice(buffer, VendorAt + 4, off))
          THEN err' = "UnicodeDecodeError" /\ pc' = "raised" /\ UNCHANGED <<offset, ncomments>>
          ELSE IF Len(cntb) < 4
          THEN err' = "struct.error" /\ pc' = "raised" /\ offset' = off /\ ncomments' = ncomments
          ELSE /\ ncomments' = UnpackI(cntb)
               /\ offset' = off + 4
               /\ pc' = "entries"
               /\ err' = err
    /\ UNCHANGED <<info, scanVars, laceVars, locVars, ident, buffer, cidx, comments>>

\* one turn of `for idx in range(self._tag._ncomments)`
CmtEntry ==
    /\ pc = "entries"
    /\ cidx < ncomments
    /\ LET lenb == Slice(buffer, offset, offset + 4)
           length == UnpackI(lenb)
           entry == Slice(buffer, offset + 4, offset + 4 + length)
           kv == SplitAt(entry)
       IN IF Len(lenb) < 4
          THEN /\ err' = "struct.error" /\ pc' = "raised"
               /\ UNCHANGED <<offset, cidx, comments>>
          ELSE IF ~HasEquals(entry)
          THEN /\ err' = "ValueError" /\ pc' = "raised"
               /\ offset' = offset + 4
               /\ UNCHANGED <<cidx, comments>>
          ELSE IF ~Decodes(kv[1]) \/ ~Decodes(kv[2])
          THEN /\ err' = "UnicodeDecodeError" /\ pc' = "raised"
               /\ offset' = offset + 4
               /\ UNCHANGED <<cidx, comments>>
          ELSE /\ comments' = Put(comments, kv[1], kv[2])
               /\ offset' = offset + 4 + length
               /\ cidx' = cidx + 1
               /\ UNCHANGED <<pc, err>>
    /\ UNCHANGED <<info, scanVars, laceVars, locVars, ident, buffer, ncomments>>

\* the loop is over: __init__ returns and _read sets self._info
CmtEnd ==
    /\ pc = "entries"
    /\ cidx = ncomments
    /\ info' = "AudioInfo"
    /\ pc' = "done"
    /\ UNCHANGED <<err, scanVars, laceVars, locVars, ident, cmtVars>>

RECURSIVE Concat(_)
Concat(ss) == IF ss = <<>> THEN <<>> ELSE ss[1] \o Concat(Tail(ss))

Field(text) == LE32(Len(text)) \o text

\* "A=x", "A=y", "B=x", "A=x=y", "A", "", "A=" 0xFF, 0xFF "=x"
EntryTexts ==
    {<<65, 61, 120>>, <<65, 61, 121>>, <<66, 61, 120>>, <<65, 61, 120, 61, 121>>,
     <<65>>, <<>>, <<65, 61, 255>>, <<255, 61, 120>>}

Vendors == {<<>>, <<118>>}

CmtPrefix == <<3, 118, 111, 114, 98, 105, 115>>

\* a comment page payload: entries es, a declared count of Len(es) + more,
\* and the last cut bytes missing
CmtPayload(vendor, es, more, cut) ==
    LET whole == CmtPrefix \o Field(vendor) \o LE32(Len(es) + more)
                 \o Concat([k \in 1..Len(es) |-> Field(es[k])])
    IN SubSeq(whole, 1, Len(whole) - cut)

InitCmt ==
    /\ pc = "comments" /\ err = "none" /\ info = "unset"
    /\ \E vendor \in Vendors, es \in SeqsUpTo(EntryTexts, MaxEntries),
          more \in 0..1, cut \in 0..MaxCut :
          buffer = CmtPayload(vendor, es, more, cut)
    /\ offset = 0 /\ ncomments = 0 /\ cidx = 0 /\ comments = {}
    /\ ScanIdle /\ LaceIdle /\ LocIdle /\ ident = NoIdent

NextCmt == CmtVendor \/ CmtEntry \/ CmtEnd \/ ReadCatch

SpecCmt == InitCmt /\ [][NextCmt]_vars

(***************************************************************************)
(* The claim about comment decoding, verified under SpecCmt.  The entries   *)
(* are restated as a walk over the payload by the declared lengths.        *)
(***************************************************************************)
\* the vendor string and the entry count lie whole in the payload
HeaderWhole ==
    /\ Len(buffer) >= 11
    /\ Len(buffer) >= 11 + UnpackI(SubSeq(buffer, 8, 11)) + 4

EntriesAt == 11 + UnpackI(SubSeq(buffer, 8, 11)) + 4

DeclaredCount == UnpackI(SubSeq(buffer, EntriesAt - 3, EntriesAt))

\* the entry whose length field begins at 0-based offset o is malformed
Malformed(o) ==
    \/ o + 4 > Len(buffer)
    \/ o + 4 + UnpackI(SubSeq(buffer, o + 1, o + 4)) > Len(buffer)
    \/ LET text == SubSeq(buffer, o + 5, o + 4 + UnpackI(SubSeq(buffer, o + 1, o + 4)))
       IN (\A k \in 1..Len(text) : text[k] # 61) \/ (\E k \in 1..Len(text) : text[k] >= 128)

\* the table after the entries from the k-th on, at offset o, given table d
RECURSIVE Inserted(_, _, _)
Inserted(o, k, d) ==
    IF k > DeclaredCount \/ Malformed(o) THEN d
    ELSE LET n == UnpackI(SubSeq(buffer, o + 1, o + 4))
             text == SubSeq(buffer, o + 5, o + 4 + n)
             e == CHOOSE i \in 1..n : text[i] = 61 /\ \A j \in 1..(i - 1) : text[j] # 61
             key == SubSeq(text, 1, e - 1)
             val == SubSeq(text, e + 1, n)
         IN Inserted(o + 4 + n, k + 1, {p \in d : p[1] # key} \cup {<<key, val>>})

\* some entry at or after the k-th, at offset o, is malformed
RECURSIVE SomeMalformed(_, _)
SomeMalformed(o, k) ==
    /\ k <= DeclaredCount
    /\ \/ Malformed(o)
       \/ SomeMalformed(o + 4 + UnpackI(SubSeq(buffer, o + 1, o + 4)), k + 1)

CmtOver == pc \in {"raised", "done"}

\* C9: when comment decoding has ended, the table holds exactly the entries
\* before the first malformed one (no "=", a declared length past the end of
\* the payload, or invalid UTF-8), split at their first "=", a repeated key
\* keeping its last value; and an error was raised iff an entry is malformed.
C9_TableUpToFirstMalformed ==
    (CmtOver /\ HeaderWhole) =>
        /\ comments = Inserted(EntriesAt, 1, {})
        /\ err # "none" <=> SomeMalformed(EntriesAt, 1)

\* the text of some entry at or after the k-th, at offset o, runs past the
\* end of the payload
RECURSIVE SomeOverrun(_, _)
SomeOverrun(o, k) ==
    /\ k <= DeclaredCount
    /\ o + 4 <= Len(buffer)
    /\ \/ o + 4 + UnpackI(SubSeq(buffer, o + 1, o + 4)) > Len(buffer)
       \/ SomeOverrun(o + 4 + UnpackI(SubSeq(buffer, o + 1, o + 4)), k + 1)

\* C9 on the payloads in which no entry's text runs past the end
C9_WithoutOverrun ==
    (CmtOver /\ HeaderWhole /\ ~SomeOverrun(EntriesAt, 1)) => C9_TableUpToFirstMalformed

\* decoding ended on a malformed second entry with the first one inserted
C9_PartialTable ==
    /\ pc = "done" /\ err = "ValueError"
    /\ cidx = 1 /\ ncomments = 2 /\ comments = {<<<<65>>, <<120>>>>}

====
